---- MODULE Spec2Model ----
(***************************************************************************)
(* MuON deserializer (src/src/de.rs): the Definition cursor (MappingIter   *)
(* over a Peekable<DefIter>), the scalar conversions of Deserializer, the  *)
(* serde entry points (deserialize_bool, ...), and the sequence and        *)
(* mapping cursors (SeqAccess, MapAccess).                                 *)
(*                                                                         *)
(* Text is a sequence of Unicode code points; the input is the sequence of *)
(* its physical lines.  The line tokenizer (crate::lines) and the integer  *)
(* parser (crate::intparse) are not part of de.rs; they are modelled from  *)
(* the specification of the notation.                                      *)
(***************************************************************************)
EXTENDS Integers, Sequences, FiniteSets, TLC

VARIABLES
    input,      \* the text given to from_str: the sequence of its lines
    defs,       \* Deserializer::mappings.defs, the Peekable<DefIter>
    op,         \* the request made last
    res,        \* the result it returned
    last_peek,  \* the result of the call before it when that was peek_key
    target,     \* the type T that from_str decodes
    stack       \* the visitors of the running decode, innermost last

\* F(x) as Rust calls it: the argument is evaluated, once, before the call
Apply(F(_), x) == CHOOSE r \in {F(y) : y \in {x}} : TRUE

vars == <<input, defs, op, res, last_peek, target, stack>>

-----------------------------------------------------------------------------
(* Bounds of the model *)

\* largest number of physical lines of a generated input
MaxLines == 3

\* largest number of elements a sequence visitor collects: more than the
\* Definitions of any input, so that only a visitor whose elements consume
\* nothing is cut short
MaxElements == 5

-----------------------------------------------------------------------------
(* Text *)

\* code point of each character the model's texts are written with
Code ==
    ("a" :> 97) @@ ("b" :> 98) @@ ("c" :> 99) @@ ("d" :> 100) @@ ("e" :> 101) @@
    ("f" :> 102) @@ ("g" :> 103) @@ ("i" :> 105) @@ ("l" :> 108) @@
    ("n" :> 110) @@ ("o" :> 111) @@ ("r" :> 114) @@ ("s" :> 115) @@
    ("t" :> 116) @@ ("u" :> 117) @@ ("v" :> 118) @@ ("x" :> 120) @@
    ("h" :> 104) @@ ("m" :> 109) @@ ("p" :> 112) @@ ("w" :> 119) @@
    ("z" :> 122) @@ ("," :> 44) @@
    ("E" :> 69) @@ ("H" :> 72) @@ ("R" :> 82) @@ ("T" :> 84) @@
    ("U" :> 85) @@ ("W" :> 87) @@
    ("0" :> 48) @@ ("1" :> 49) @@ ("2" :> 50) @@ ("3" :> 51) @@
    ("4" :> 52) @@ ("5" :> 53) @@ ("6" :> 54) @@ ("7" :> 55) @@
    ("8" :> 56) @@ ("9" :> 57) @@
    (" " :> 32) @@ ("#" :> 35) @@ ("+" :> 43) @@ ("-" :> 45) @@
    (":" :> 58) @@
    ("e_acute" :> 233) @@ ("euro" :> 8364) @@ ("grin" :> 128512)

\* the text whose characters are named by cs
Str(cs) == [i \in 1..Len(cs) |-> Code[cs[i]]]

\* number of bytes of the UTF-8 encoding of code point c
Utf8Len(c) ==
    IF c < 128 THEN 1 ELSE IF c < 2048 THEN 2 ELSE IF c < 65536 THEN 3 ELSE 4

RECURSIVE ByteLen(_)
\* str::len: the length of a text in bytes
ByteLen(t) == IF t = <<>> THEN 0 ELSE Utf8Len(Head(t)) + ByteLen(Tail(t))

IsSpace(c) == c = 32 \/ c = 9

RECURSIVE TrimStart(_)
TrimStart(t) ==
    IF t # <<>> /\ IsSpace(Head(t)) THEN TrimStart(Tail(t)) ELSE t

RECURSIVE TrimEnd(_)
TrimEnd(t) ==
    IF t # <<>> /\ IsSpace(t[Len(t)])
    THEN TrimEnd(SubSeq(t, 1, Len(t) - 1))
    ELSE t

Trim(t) == TrimEnd(TrimStart(t))

\* position of the first occurrence of c in t, 0 when there is none
Find(t, c) ==
    IF \E i \in 1..Len(t) : t[i] = c
    THEN CHOOSE i \in 1..Len(t) : t[i] = c /\ \A j \in 1..(i - 1) : t[j] # c
    ELSE 0

RECURSIVE Decimal(_)
\* "{}" of a natural number: its decimal digits
Decimal(n) ==
    IF n < 10 THEN <<48 + n>> ELSE Decimal(n \div 10) \o <<48 + (n % 10)>>

-----------------------------------------------------------------------------
(* Line tokenizer (crate::lines: LineIter, DefIter, Define) *)

\* Option::None
None == [k |-> "None"]

\* Define::Valid(indent, line number, key, value)
Valid(indent, ln, key, value) ==
    [k |-> "Valid", indent |-> indent, ln |-> ln, key |-> key, value |-> value]

\* Define::Invalid(error descriptor, line number)
Invalid(e, ln) == [k |-> "Invalid", e |-> e, ln |-> ln]

\* number of leading blanks of a line
LeadingBlanks(t) == Len(t) - Len(TrimStart(t))

\* a line that yields no Definition: empty, or starting with the comment marker
IsSkipped(t) == TrimStart(t) = <<>> \/ Head(TrimStart(t)) = Code["#"]

\* the Definition of a line t, numbered ln, whose first separator is at sep
Split(t, ln, sep) ==
    IF sep = 0 THEN Invalid("MissingSeparator", ln)
    ELSE IF Trim(SubSeq(t, 1, sep - 1)) = <<>> THEN Invalid("MissingKey", ln)
    ELSE Valid(LeadingBlanks(t) \div 2, ln,
               Trim(SubSeq(t, 1, sep - 1)),
               Trim(SubSeq(t, sep + 1, Len(t))))

\* the Definition of the logical line t, which is line number ln of the input
Tokenize(t, ln) == Apply(LAMBDA sep : Split(t, ln, sep), Find(t, Code[":"]))

\* line number of the first line after line `from` that yields a Definition,
\* 0 when there is none
NextDefLine(from) ==
    IF \E j \in (from + 1)..Len(input) : ~IsSkipped(input[j])
    THEN CHOOSE j \in (from + 1)..Len(input) :
            /\ ~IsSkipped(input[j])
            /\ \A i \in (from + 1)..(j - 1) : IsSkipped(input[i])
    ELSE 0

\* the tokenizer's step from cursor state d to line j (0: end of input)
DefAt(d, j) ==
    IF j = 0
    THEN [item |-> None, d |-> [d EXCEPT !.line = Len(input)]]
    ELSE [item |-> Tokenize(input[j], j),
          d |-> [d EXCEPT !.line = j, !.pulled = @ + 1]]

\* DefIter::next on the cursor state d: the item pulled and the state after.
\* d.line is the number of physical lines the tokenizer has read; d.pulled
\* counts the Definitions it has produced.
DefIterNext(d) == Apply(LAMBDA j : DefAt(d, j), NextDefLine(d.line))

-----------------------------------------------------------------------------
(* std::iter::Peekable over DefIter: the field MappingIter::defs.           *)
(* d.peeked is the lookahead slot: <<>> when empty, <<item>> when filled.   *)

\* store the pulled item n.item in the lookahead slot
Buffered(n) == [item |-> n.item, d |-> [n.d EXCEPT !.peeked = <<n.item>>]]

\* Peekable::peek: fill the slot from the iterator when it is empty
Peek(d) ==
    IF d.peeked # <<>>
    THEN [item |-> d.peeked[1], d |-> d]
    ELSE Apply(Buffered, DefIterNext(d))

\* hand out n.item; d.consumed counts the Definitions handed out
Taken(n) ==
    [item |-> n.item,
     d |-> [n.d EXCEPT !.consumed = @ + (IF n.item.k = "None" THEN 0 ELSE 1)]]

\* Peekable::next: take the slot when it is filled, else pull from the
\* iterator
PeekableNext(d) ==
    Apply(Taken,
          IF d.peeked # <<>>
          THEN [item |-> d.peeked[1], d |-> [d EXCEPT !.peeked = <<>>]]
          ELSE DefIterNext(d))

-----------------------------------------------------------------------------
(* Results and errors (crate::error) *)

Ok(v) == [st |-> "Ok", v |-> v]
Err(e) == [st |-> "Err", e |-> e]
\* unimplemented!(): the call panics
Abort == [st |-> "Abort"]

Eof == [kind |-> "Eof"]
ExpectedBoolean == [kind |-> "ExpectedBoolean"]
ExpectedChar == [kind |-> "ExpectedChar"]
ExpectedInteger == [kind |-> "ExpectedInteger"]
ExpectedEnum == [kind |-> "ExpectedEnum"]
FailedParse(msg) == [kind |-> "FailedParse", msg |-> msg]

\* "{:?}" of a tokenizer error descriptor: the name of the variant
DebugName(e) ==
    IF e = "MissingSeparator"
    THEN <<77, 105, 115, 115, 105, 110, 103, 83, 101, 112, 97, 114, 97, 116, 111, 114>>
    ELSE <<77, 105, 115, 115, 105, 110, 103, 75, 101, 121>>

\* format!("{:?} {}", e, ln)
Format(e, ln) == DebugName(e) \o <<32>> \o Decimal(ln)

\* the arm every match of MappingIter has for Some(Define::Invalid(e, ln))
InvalidArm(item) == Err(FailedParse(Format(item.e, item.ln)))

-----------------------------------------------------------------------------
(* MappingIter *)

\* MappingIter::new / Deserializer::from_str: nothing read, nothing peeked
NewCursor == [line |-> 0, peeked |-> <<>>, pulled |-> 0, consumed |-> 0]

\* the match of check_key on the peeked item
check_key_match(p) ==
    [r |-> IF p.item.k = "Invalid" THEN InvalidArm(p.item)
           ELSE IF p.item.k = "Valid" THEN Ok(TRUE)
           ELSE Ok(FALSE),
     d |-> p.d]

\* a mutant of check_key that takes the Definition instead of peeking
check_key_consumes(d) == Apply(check_key_match, PeekableNext(d))

\* MappingIter::check_key
check_key(d) == Apply(check_key_match, Peek(d))

\* the match of peek_key on the peeked item
peek_key_match(p) ==
    [r |-> IF p.item.k = "Invalid" THEN InvalidArm(p.item)
           ELSE IF p.item.k = "Valid" THEN Ok(p.item.key)
           ELSE Err(Eof),
     d |-> p.d]

\* a mutant of peek_key that takes the Definition instead of peeking
peek_key_consumes(d) == Apply(peek_key_match, PeekableNext(d))

\* MappingIter::peek_key
peek_key(d) == Apply(peek_key_match, Peek(d))

\* a mutant of get_value_match that reports an invalid Definition with the
\* line number before its own
get_value_wrong_line(n) ==
    [r |-> IF n.item.k = "Invalid"
           THEN Err(FailedParse(Format(n.item.e, n.item.ln - 1)))
           ELSE IF n.item.k = "Valid" THEN Ok(n.item.value)
           ELSE Err(Eof),
     d |-> n.d]

\* a mutant of get_value_match that yields an empty text at end of input
get_value_empty_at_eof(n) ==
    [r |-> IF n.item.k = "Invalid" THEN InvalidArm(n.item)
           ELSE IF n.item.k = "Valid" THEN Ok(n.item.value)
           ELSE Ok(<<>>),
     d |-> n.d]

\* the match of get_value on the item taken
get_value_match(n) ==
    [r |-> IF n.item.k = "Invalid" THEN InvalidArm(n.item)
           ELSE IF n.item.k = "Valid" THEN Ok(n.item.value)
           ELSE Err(Eof),
     d |-> n.d]

\* MappingIter::get_value
get_value(d) == Apply(get_value_match, PeekableNext(d))

-----
(* Integer parser (crate::intparse).  An integer is a pair of a sign and   *)
(* the sequence of the decimal digits of its magnitude, so that 64-bit     *)
(* values are exact; the value handed to the visitor is written in its     *)
(* canonical decimal text.                                                 *)

IsDigit(c) == 48 <= c /\ c <= 57

RECURSIVE StripZeros(_)
\* the digits without leading zeros (<<0>> for zero)
StripZeros(ds) ==
    IF Len(ds) > 1 /\ Head(ds) = 0 THEN StripZeros(Tail(ds)) ELSE ds

\* the digits of the number with digits ds, minus one (ds is not zero):
\* the last nonzero digit drops by one and the zeros after it become 9
MinusOne(ds) ==
    LET p == CHOOSE i \in 1..Len(ds) :
                 ds[i] # 0 /\ \A j \in (i + 1)..Len(ds) : ds[j] = 0
    IN  StripZeros([i \in 1..Len(ds) |->
                       IF i < p THEN ds[i] ELSE IF i = p THEN ds[i] - 1 ELSE 9])

\* the digits of the number with digits ds, plus one: the last digit that
\* is not 9 rises by one and the nines after it become 0
PlusOne(ds) ==
    IF \A i \in 1..Len(ds) : ds[i] = 9
    THEN <<1>> \o [i \in 1..Len(ds) |-> 0]
    ELSE LET p == CHOOSE i \in 1..Len(ds) :
                      ds[i] # 9 /\ \A j \in (i + 1)..Len(ds) : ds[j] = 9
         IN  [i \in 1..Len(ds) |->
                 IF i < p THEN ds[i] ELSE IF i = p THEN ds[i] + 1 ELSE 0]

\* a <= b for digit sequences without leading zeros
DigitsLeq(a, b) ==
    \/ Len(a) < Len(b)
    \/ /\ Len(a) = Len(b)
       /\ \/ a = b
          \/ \E i \in 1..Len(a) :
                /\ a[i] < b[i]
                /\ \A j \in 1..(i - 1) : a[j] = b[j]

\* the integer targets of the decode requests
IntTargets ==
    { [signed |-> sg, bits |-> b] : sg \in BOOLEAN, b \in {8, 16, 32, 64} }

TargetName(t) ==
    IF t.signed
    THEN (8 :> "i8" @@ 16 :> "i16" @@ 32 :> "i32" @@ 64 :> "i64")[t.bits]
    ELSE (8 :> "u8" @@ 16 :> "u16" @@ 32 :> "u32" @@ 64 :> "u64")[t.bits]

\* the digits of 2^b for the widths of the targets
PowerOfTwo ==
    (7 :> <<1, 2, 8>>) @@ (8 :> <<2, 5, 6>>) @@
    (15 :> <<3, 2, 7, 6, 8>>) @@ (16 :> <<6, 5, 5, 3, 6>>) @@
    (31 :> <<2, 1, 4, 7, 4, 8, 3, 6, 4, 8>>) @@
    (32 :> <<4, 2, 9, 4, 9, 6, 7, 2, 9, 6>>) @@
    (63 :> <<9, 2, 2, 3, 3, 7, 2, 0, 3, 6, 8, 5, 4, 7, 7, 5, 8, 0, 8>>) @@
    (64 :> <<1, 8, 4, 4, 6, 7, 4, 4, 0, 7, 3, 7, 0, 9, 5, 5, 1, 6, 1, 6>>)

\* the digits of the largest value of target t (T::MAX)
MaxDigits(t) ==
    MinusOne(PowerOfTwo[IF t.signed THEN t.bits - 1 ELSE t.bits])

\* the digits of the magnitude of the smallest value of target t (T::MIN)
MinDigits(t) == IF t.signed THEN PowerOfTwo[t.bits - 1] ELSE <<0>>

\* the canonical decimal text of the integer with sign neg and magnitude ds
IntText(neg, ds) ==
    (IF neg /\ ds # <<0>> THEN <<Code["-"]>> ELSE <<>>)
        \o [i \in 1..Len(ds) |-> 48 + ds[i]]

\* the range check of the literal with sign neg and digits ds against T
InRange(neg, ds, t) ==
    IF neg /\ ~t.signed THEN None
    ELSE IF ~DigitsLeq(ds, IF neg THEN MinDigits(t) ELSE MaxDigits(t)) THEN None
    ELSE [k |-> "Some", v |-> IntText(neg, ds)]

\* the literal with sign neg whose digits are the text body
ParseDigits(neg, body, t) ==
    IF body = <<>> \/ \E i \in 1..Len(body) : ~IsDigit(body[i]) THEN None
    ELSE InRange(neg, StripZeros([i \in 1..Len(body) |-> body[i] - 48]), t)

\* intparse::from_str::<T>(text): Some(value) for a decimal literal, with an
\* optional sign, that lies in the range of T; None otherwise
IntParse(text, t) ==
    IF text # <<>> /\ Head(text) \in {45, 43}
    THEN ParseDigits(Head(text) = 45, Tail(text), t)
    ELSE ParseDigits(FALSE, text, t)

RECURSIVE DigitsValue(_)
\* the number with digits ds (for numbers that fit TLC's 32-bit integers)
DigitsValue(ds) ==
    IF ds = <<>> THEN 0
    ELSE 10 * DigitsValue(SubSeq(ds, 1, Len(ds) - 1)) + ds[Len(ds)]

\* the integer written by the canonical text x
TextValue(x) ==
    IF Head(x) = Code["-"]
    THEN 0 - DigitsValue([i \in 1..(Len(x) - 1) |-> x[i + 1] - 48])
    ELSE DigitsValue([i \in 1..Len(x) |-> x[i] - 48])

\* the canonical text of the integer n
ValueText(n) == IF n < 0 THEN <<Code["-"]>> \o Decimal(0 - n) ELSE Decimal(n)

\* `v as i8` for an i16 v: keep the low 8 bits, two's complement
AsI8(n) == ((n + 128) % 256) - 128

-----------------------------------------------------------------------------
(* Deserializer: scalar conversions *)

\* Deserializer::parse_text
parse_text(d) == get_value(d)

\* parse_char after parse_text()?: text.len() is the length in bytes
parse_char_match(g) ==
    IF g.r.st # "Ok" THEN g
    ELSE IF ByteLen(g.r.v) = 1 /\ g.r.v # <<>>
    THEN [r |-> Ok(Head(g.r.v)), d |-> g.d]
    ELSE [r |-> Err(ExpectedChar), d |-> g.d]

\* Deserializer::parse_char
parse_char(d) == Apply(parse_char_match, parse_text(d))

\* a mutant of parse_bool_match that ignores the case of the first letter
parse_bool_any_case(g) ==
    IF g.r.st # "Ok" THEN g
    ELSE IF g.r.v \in {Str(<<"t", "r", "u", "e">>), Str(<<"T", "r", "u", "e">>)}
    THEN [r |-> Ok(TRUE), d |-> g.d]
    ELSE IF g.r.v = Str(<<"f", "a", "l", "s", "e">>)
    THEN [r |-> Ok(FALSE), d |-> g.d]
    ELSE [r |-> Err(ExpectedBoolean), d |-> g.d]

\* parse_bool after get_value()?: the match on the value text
parse_bool_match(g) ==
    IF g.r.st # "Ok" THEN g
    ELSE IF g.r.v = Str(<<"t", "r", "u", "e">>)
    THEN [r |-> Ok(TRUE), d |-> g.d]
    ELSE IF g.r.v = Str(<<"f", "a", "l", "s", "e">>)
    THEN [r |-> Ok(FALSE), d |-> g.d]
    ELSE [r |-> Err(ExpectedBoolean), d |-> g.d]

\* a mutant of parse_bool that leaves a Definition it refuses in the cursor
parse_bool_keeps_refused(d) ==
    Apply(LAMBDA c : IF c.r.st = "Err" /\ c.r.e = ExpectedBoolean
                     THEN [r |-> c.r, d |-> Peek(d).d]
                     ELSE c,
          Apply(parse_bool_match, get_value(d)))

\* Deserializer::parse_bool
parse_bool(d) == Apply(parse_bool_match, get_value(d))

\* Some(v) => Ok(v), None => Err(ExpectedInteger)
parse_int_result(v, d) ==
    IF v.k = "Some" THEN [r |-> Ok(v.v), d |-> d]
    ELSE [r |-> Err(ExpectedInteger), d |-> d]

\* parse_int after get_value()?
parse_int_match(g, t) ==
    IF g.r.st # "Ok" THEN g
    ELSE Apply(LAMBDA v : parse_int_result(v, g.d), IntParse(g.r.v, t))

\* Deserializer::parse_int::<T>
parse_int(d, t) == Apply(LAMBDA g : parse_int_match(g, t), get_value(d))

-----
(* serde::de::Deserializer for &mut Deserializer: one entry per request.   *)
(* The value a request hands to its visitor is [t |-> kind, v |-> value].  *)

Visit(t, v) == [t |-> t, v |-> v]

\* map a successful conversion through the visitor call
Visited(g, t) ==
    Apply(LAMBDA c : IF c.r.st = "Ok" THEN [r |-> Ok(Visit(t, c.r.v)), d |-> c.d] ELSE c,
          g)

\* deserialize_any
deserialize_any(d) == [r |-> Abort, d |-> d]

\* deserialize_ignored_any
deserialize_ignored_any(d) == deserialize_any(d)

\* deserialize_bool
deserialize_bool(d) == Visited(parse_bool(d), "bool")

\* visitor.visit_i8(v as i8) for the i16 v that parse_int returned
NarrowedI8(g) ==
    IF g.r.st = "Ok"
    THEN [r |-> Ok(Visit("i8", ValueText(AsI8(TextValue(g.r.v))))), d |-> g.d]
    ELSE g

\* deserialize_i8: parse an i16, then narrow it with `as i8`
deserialize_i8(d) == Apply(NarrowedI8, parse_int(d, [signed |-> TRUE, bits |-> 16]))

deserialize_i16(d) == Visited(parse_int(d, [signed |-> TRUE, bits |-> 16]), "i16")
deserialize_i32(d) == Visited(parse_int(d, [signed |-> TRUE, bits |-> 32]), "i32")
deserialize_i64(d) == Visited(parse_int(d, [signed |-> TRUE, bits |-> 64]), "i64")
deserialize_u8(d) == Visited(parse_int(d, [signed |-> FALSE, bits |-> 8]), "u8")
deserialize_u16(d) == Visited(parse_int(d, [signed |-> FALSE, bits |-> 16]), "u16")
deserialize_u32(d) == Visited(parse_int(d, [signed |-> FALSE, bits |-> 32]), "u32")
deserialize_u64(d) == Visited(parse_int(d, [signed |-> FALSE, bits |-> 64]), "u64")

\* the integer request for target t
deserialize_int(d, t) ==
    CASE TargetName(t) = "i8"  -> deserialize_i8(d)
      [] TargetName(t) = "i16" -> deserialize_i16(d)
      [] TargetName(t) = "i32" -> deserialize_i32(d)
      [] TargetName(t) = "i64" -> deserialize_i64(d)
      [] TargetName(t) = "u8"  -> deserialize_u8(d)
      [] TargetName(t) = "u16" -> deserialize_u16(d)
      [] TargetName(t) = "u32" -> deserialize_u32(d)
      [] TargetName(t) = "u64" -> deserialize_u64(d)

\* deserialize_f32, deserialize_f64
deserialize_f32(d) == [r |-> Abort, d |-> d]
deserialize_f64(d) == [r |-> Abort, d |-> d]

\* deserialize_char
deserialize_char(d) == Visited(parse_char(d), "char")

\* deserialize_str
deserialize_str(d) == Visited(parse_text(d), "str")

\* deserialize_string
deserialize_string(d) == deserialize_str(d)

\* deserialize_bytes, deserialize_byte_buf
deserialize_bytes(d) == [r |-> Abort, d |-> d]
deserialize_byte_buf(d) == [r |-> Abort, d |-> d]

\* a mutant of deserialize_unit that takes the value of a Definition
deserialize_unit_takes_value(d) ==
    Apply(LAMBDA g : IF g.r.st = "Ok" THEN [r |-> Ok(Visit("unit", <<>>)), d |-> g.d] ELSE g,
          get_value(d))

\* deserialize_unit, deserialize_unit_struct
deserialize_unit(d) == [r |-> Ok(Visit("unit", <<>>)), d |-> d]
deserialize_unit_struct(d) == deserialize_unit(d)

\* a mutant of deserialize_enum that reads the value as the variant
deserialize_enum_reads_value(d) == Visited(parse_text(d), "enum")

\* deserialize_enum
deserialize_enum(d) == [r |-> Err(ExpectedEnum), d |-> d]

\* deserialize_identifier
deserialize_identifier(d) == Visited(peek_key(d), "str")

\* the scalar requests, by name
Requests ==
    {"bool", "char", "str", "string", "unit", "unit_struct", "enum", "identifier",
     "any", "ignored_any", "f32", "f64", "bytes", "byte_buf"}
        \cup {TargetName(t) : t \in IntTargets}

\* the entry point that serves request q
Deserialize(q, d) ==
    CASE q = "bool"        -> deserialize_bool(d)
      [] q = "char"        -> deserialize_char(d)
      [] q = "str"         -> deserialize_str(d)
      [] q = "string"      -> deserialize_string(d)
      [] q = "unit"        -> deserialize_unit(d)
      [] q = "unit_struct" -> deserialize_unit_struct(d)
      [] q = "enum"        -> deserialize_enum(d)
      [] q = "identifier"  -> deserialize_identifier(d)
      [] q = "any"         -> deserialize_any(d)
      [] q = "ignored_any" -> deserialize_ignored_any(d)
      [] q = "f32"         -> deserialize_f32(d)
      [] q = "f64"         -> deserialize_f64(d)
      [] q = "bytes"       -> deserialize_bytes(d)
      [] q = "byte_buf"    -> deserialize_byte_buf(d)
      [] OTHER             ->
            deserialize_int(d, CHOOSE t \in IntTargets : TargetName(t) = q)

-----------------------------------------------------------------------------------------------------------------------------------------------------
(* The decode of a target type T, as serde drives it.                      *)
(*                                                                         *)
(* A target is a scalar request, Option<T>, Vec<T>, a tuple, a tuple       *)
(* struct, BTreeMap<K, V>, or a struct with named fields whose Deserialize *)
(* is derived.  A machine m is the Deserializer                            *)
(* m.d, the result m.r of from_str once it has returned, and the stack     *)
(* m.stack of the visitors that are waiting for a value:                   *)
(*   [f |-> "some"]              OptionVisitor::visit_some                 *)
(*   [f |-> "newtype"]           the derived visit_newtype_struct          *)
(*   [f |-> "seq", ty, acc]      VecVisitor::visit_seq, acc collected      *)
(*   [f |-> "tuple", t, tys, acc, expected]                                *)
(*                               the visit_seq of a tuple (t = "tuple") or *)
(*                               of a tuple struct (t = "tuple_struct"):   *)
(*                               it pulls Len(tys) elements, element i of  *)
(*                               type tys[i]; expected is what its error   *)
(*                               message says it expects                   *)
(*   [f |-> "map", kty, vty, acc, key]                                     *)
(*                               the visit_map of BTreeMap<kty, vty>: acc  *)
(*                               is the set of its entries <<k, v>>; key   *)
(*                               is <<>> before a key is pulled, <<k>>     *)
(*                               when the value of key k is due            *)
(*   [f |-> "struct", fields, got, wait]                                   *)
(*                               the derived visit_map: got[i] is <<>> or  *)
(*                               <<value of field i>>; wait is 0 before a  *)
(*                               key is pulled, i when the value of field  *)
(*                               i is due, -1 when the key names no field  *)

Scalar(q) == [k |-> "scalar", q |-> q]
OptionOf(ty) == [k |-> "option", of |-> ty]
NewtypeOf(ty) == [k |-> "newtype", of |-> ty]
SeqOf(ty) == [k |-> "seq", of |-> ty]
TupleOf(tys) == [k |-> "tuple", of |-> tys]
TupleStructOf(name, tys) == [k |-> "tuple_struct", name |-> name, of |-> tys]
MapOf(kty, vty) == [k |-> "map", key |-> kty, of |-> vty]
Field(name, ty) == [name |-> name, ty |-> ty]
Struct(fields) == [k |-> "struct", fields |-> fields]

NoResult == [st |-> "None"]

\* Error::custom, as serde's derived code raises it
Custom(what, name) == [kind |-> "Custom", what |-> what, name |-> name]

\* the index of the field named key, 0 when there is none
FieldIndex(fields, key) ==
    IF \E i \in 1..Len(fields) : fields[i].name = key
    THEN CHOOSE i \in 1..Len(fields) : fields[i].name = key
    ELSE 0

\* what serde's tuple visitor says it expects: "a tuple of size {n}"
ExpectedTuple(n) ==
    Str(<<"a", " ", "t", "u", "p", "l", "e", " ", "o", "f", " ",
          "s", "i", "z", "e", " ">>) \o Decimal(n)

\* what a derived tuple struct visitor says it expects:
\* "tuple struct {name} with {n} element{s}", "element" when n is 1
ExpectedTupleStruct(name, n) ==
    Str(<<"t", "u", "p", "l", "e", " ", "s", "t", "r", "u", "c", "t", " ">>)
        \o name \o Str(<<" ", "w", "i", "t", "h", " ">>) \o Decimal(n)
        \o Str(<<" ", "e", "l", "e", "m", "e", "n", "t">>)
        \o (IF n = 1 THEN <<>> ELSE Str(<<"s">>))

\* de::Error::invalid_length(len, &exp): "invalid length {len}, expected {exp}"
InvalidLength(len, exp) ==
    Custom("other",
           Str(<<"i", "n", "v", "a", "l", "i", "d", " ",
                 "l", "e", "n", "g", "t", "h", " ">>) \o Decimal(len)
               \o Str(<<",", " ", "e", "x", "p", "e", "c", "t", "e", "d", " ">>) \o exp)

\* BTreeMap::insert: the entry of key k is replaced
Insert(acc, k, v) == {e \in acc : e[1] # k} \cup {<<k, v>>}

Top(m) == m.stack[Len(m.stack)]
Pop(m) == [m EXCEPT !.stack = SubSeq(@, 1, Len(@) - 1)]
Push(m, frame) == [m EXCEPT !.stack = Append(@, frame)]

\* an error or a panic ends from_str with result r: `?` in every caller
Fail(m, r) == [m EXCEPT !.stack = <<>>, !.r = r]

RECURSIVE Return(_, _)
\* the innermost pending deserialize call returns Ok(v) to its visitor
Return(m, v) ==
    IF m.stack = <<>> THEN [m EXCEPT !.r = Ok(v)]
    ELSE IF Top(m).f = "some" THEN Return(Pop(m), Visit("some", v))
    ELSE IF Top(m).f = "newtype" THEN Return(Pop(m), Visit("newtype", v))
    ELSE IF Top(m).f = "seq"
    THEN [m EXCEPT !.stack[Len(m.stack)].acc = Append(@, v)]
    ELSE IF Top(m).f = "tuple"
    THEN IF Len(Top(m).acc) + 1 = Len(Top(m).tys)
         THEN Return(Pop(m), Visit(Top(m).t, Append(Top(m).acc, v)))
         ELSE [m EXCEPT !.stack[Len(m.stack)].acc = Append(@, v)]
    ELSE IF Top(m).f = "map"
    THEN IF Top(m).key = <<>>
         THEN [m EXCEPT !.stack[Len(m.stack)].key = <<v>>]
         ELSE [m EXCEPT !.stack[Len(m.stack)].acc = Insert(@, Top(m).key[1], v),
                        !.stack[Len(m.stack)].key = <<>>]
    ELSE [m EXCEPT !.stack[Len(m.stack)].got[Top(m).wait] = <<v>>,
                   !.stack[Len(m.stack)].wait = 0]

\* a mutant of AfterScalar that drops an error and leaves the visitor to go on
AfterScalarSkipsError(m, c) ==
    IF c.r.st = "Ok" THEN Return([m EXCEPT !.d = c.d], c.r.v)
    ELSE [m EXCEPT !.d = c.d]

\* the scalar request returned c
AfterScalar(m, c) ==
    IF c.r.st = "Ok" THEN Return([m EXCEPT !.d = c.d], c.r.v)
    ELSE Fail([m EXCEPT !.d = c.d], c.r)

RECURSIVE Begin(_, _)

\* a mutant of deserialize_option that yields None at the end of the input
deserialize_option_none_at_eof(ty, m) ==
    IF check_key(m.d).r = Ok(FALSE) THEN Return(m, Visit("none", <<>>))
    ELSE Begin(ty, Push(m, [f |-> "some"]))

\* deserialize_option: visitor.visit_some(self), which decodes the inner
\* type ty from the same Deserializer
deserialize_option(ty, m) == Begin(ty, Push(m, [f |-> "some"]))

\* deserialize_newtype_struct: visitor.visit_newtype_struct(self)
deserialize_newtype_struct(ty, m) == Begin(ty, Push(m, [f |-> "newtype"]))

\* deserialize_seq: visitor.visit_seq(self); the visitor `frame` has the
\* Deserializer as its SeqAccess.  The visit_seq of a tuple or of a tuple
\* struct without elements pulls nothing and returns its value at once
deserialize_seq(frame, m) ==
    IF frame.f = "tuple" /\ frame.tys = <<>> THEN Return(m, Visit(frame.t, <<>>))
    ELSE Push(m, frame)

\* deserialize_tuple: self.deserialize_seq(visitor), the length is not used
deserialize_tuple(tys, m) ==
    deserialize_seq([f |-> "tuple", t |-> "tuple", tys |-> tys, acc |-> <<>>,
                     expected |-> ExpectedTuple(Len(tys))], m)

\* deserialize_tuple_struct: self.deserialize_seq(visitor), neither the name
\* nor the length is used
deserialize_tuple_struct(name, tys, m) ==
    deserialize_seq([f |-> "tuple", t |-> "tuple_struct", tys |-> tys, acc |-> <<>>,
                     expected |-> ExpectedTupleStruct(name, Len(tys))], m)

\* deserialize_map: visitor.visit_map(self); the visitor `frame` has the
\* Deserializer as its MapAccess
deserialize_map(frame, m) == Push(m, frame)

\* deserialize_struct: self.deserialize_map(visitor), neither the name
\* nor the field names are used
deserialize_struct(fields, m) ==
    deserialize_map([f |-> "struct", fields |-> fields,
                     got |-> [i \in 1..Len(fields) |-> <<>>], wait |-> 0], m)

\* T::deserialize(&mut deserializer) for the target ty: a scalar request is
\* served at once; deserialize_option and deserialize_newtype_struct decode
\* the inner type; deserialize_seq, deserialize_tuple,
\* deserialize_tuple_struct, deserialize_map and deserialize_struct hand the
\* Deserializer to the visitor as its SeqAccess / MapAccess
Begin(ty, m) ==
    CASE ty.k = "scalar" -> Apply(LAMBDA c : AfterScalar(m, c), Deserialize(ty.q, m.d))
      [] ty.k = "option" -> deserialize_option(ty.of, m)
      [] ty.k = "newtype" -> deserialize_newtype_struct(ty.of, m)
      [] ty.k = "seq"    -> deserialize_seq([f |-> "seq", ty |-> ty.of, acc |-> <<>>], m)
      [] ty.k = "tuple"  -> deserialize_tuple(ty.of, m)
      [] ty.k = "tuple_struct" -> deserialize_tuple_struct(ty.name, ty.of, m)
      [] ty.k = "map"    ->
            deserialize_map([f |-> "map", kty |-> ty.key, vty |-> ty.of,
                             acc |-> {}, key |-> <<>>], m)
      [] ty.k = "struct" -> deserialize_struct(ty.fields, m)

\* the fields of frame fr that have no value and are not optional
Missing(fr) ==
    {i \in 1..Len(fr.fields) : fr.got[i] = <<>> /\ fr.fields[i].ty.k # "option"}

\* the end of the derived visit_map: a missing field is an error unless it
\* is optional
FinishStruct(m, fr) ==
    IF Missing(fr) # {}
    THEN Fail(m, Err(Custom("missing_field",
                            fr.fields[CHOOSE i \in Missing(fr) :
                                         \A j \in Missing(fr) : i <= j].name)))
    ELSE Return(Pop(m),
                Visit("struct",
                      [i \in 1..Len(fr.fields) |->
                          IF fr.got[i] = <<>> THEN Visit("none", <<>>)
                          ELSE fr.got[i][1]]))

\* a mutant of SeqElement that ends the sequence while Definitions remain
SeqElementEndsEarly(m, c) ==
    IF c.r.st # "Ok" THEN Fail([m EXCEPT !.d = c.d], c.r)
    ELSE Return(Pop([m EXCEPT !.d = c.d]), Visit("seq", Top(m).acc))

\* the type of the element the visitor of frame fr asks for next
ElementType(fr) == IF fr.f = "seq" THEN fr.ty ELSE fr.tys[Len(fr.acc) + 1]

\* the visitor of frame fr on Ok(None): a Vec is complete; a tuple or a
\* tuple struct that still wants an element is an error
EndOfSeq(m, fr) ==
    IF fr.f = "seq" THEN Return(Pop(m), Visit("seq", fr.acc))
    ELSE Fail(m, Err(InvalidLength(Len(fr.acc), fr.expected)))

\* next_element_seed after check_key()? returned c
SeqElement(m, c) ==
    IF c.r.st # "Ok" THEN Fail([m EXCEPT !.d = c.d], c.r)
    ELSE IF c.r.v THEN Begin(ElementType(Top(m)), [m EXCEPT !.d = c.d])
    ELSE EndOfSeq([m EXCEPT !.d = c.d], Top(m))

\* SeqAccess::next_element_seed
next_element_seed(m) == Apply(LAMBDA c : SeqElement(m, c), check_key(m.d))

\* the derived field visitor on the key that deserialize_identifier
\* returned: a key that names a field twice is an error
KeyVisited(m, c, i) ==
    IF c.r.st # "Ok" THEN Fail([m EXCEPT !.d = c.d], c.r)
    ELSE IF i = 0 THEN [m EXCEPT !.d = c.d, !.stack[Len(m.stack)].wait = -1]
    ELSE IF Top(m).got[i] # <<>>
    THEN Fail([m EXCEPT !.d = c.d],
              Err(Custom("duplicate_field", Top(m).fields[i].name)))
    ELSE [m EXCEPT !.d = c.d, !.stack[Len(m.stack)].wait = i]

\* seed.deserialize(&mut *self) of next_key_seed: deserialize_identifier
KeySeed(m, c) ==
    Apply(LAMBDA i : KeyVisited(m, c, i),
          IF c.r.st = "Ok" THEN FieldIndex(Top(m).fields, c.r.v.v) ELSE 0)

\* a mutant of MapKey that takes the keys in the order of the fields,
\* whatever the key of the line
MapKeyByPosition(m, c) ==
    IF c.r.st # "Ok" THEN Fail([m EXCEPT !.d = c.d], c.r)
    ELSE IF ~c.r.v THEN FinishStruct([m EXCEPT !.d = c.d], Top(m))
    ELSE IF Missing(Top(m)) = {} THEN [m EXCEPT !.d = c.d, !.stack[Len(m.stack)].wait = -1]
    ELSE [m EXCEPT !.d = c.d,
                   !.stack[Len(m.stack)].wait =
                       CHOOSE i \in Missing(Top(m)) : \A j \in Missing(Top(m)) : i <= j]

\* next_key_seed after check_key()? returned c
MapKey(m, c) ==
    IF c.r.st # "Ok" THEN Fail([m EXCEPT !.d = c.d], c.r)
    ELSE IF c.r.v THEN Apply(LAMBDA k : KeySeed(m, k), deserialize_identifier(c.d))
    ELSE FinishStruct([m EXCEPT !.d = c.d], Top(m))

\* next_key_seed after check_key()? returned c, for the visitor of
\* BTreeMap<K, V>: the key seed is K::deserialize, which for a scalar K
\* takes the value of the Definition; Ok(None) completes the map
MapEntryKey(m, c) ==
    IF c.r.st # "Ok" THEN Fail([m EXCEPT !.d = c.d], c.r)
    ELSE IF c.r.v THEN Begin(Top(m).kty, [m EXCEPT !.d = c.d])
    ELSE Return(Pop([m EXCEPT !.d = c.d]), Visit("map", Top(m).acc))

\* MapAccess::next_key_seed
next_key_seed(m) ==
    Apply(LAMBDA c : IF Top(m).f = "map" THEN MapEntryKey(m, c) ELSE MapKey(m, c),
          check_key(m.d))

\* MapAccess::next_value_seed: seed.deserialize(self).  The seed of
\* BTreeMap<K, V> is V::deserialize; the derived struct visitor's is the
\* type of the field, and IgnoredAny (deserialize_ignored_any) for the
\* value of an unknown key
next_value_seed(m) ==
    IF Top(m).f = "map" THEN Begin(Top(m).vty, m)
    ELSE IF Top(m).wait = -1
    THEN Apply(LAMBDA c : AfterScalar(m, c), deserialize_ignored_any(m.d))
    ELSE Begin(Top(m).fields[Top(m).wait].ty, m)

\* a mutant of from_str that refuses an input it has not read to the end
from_str_requires_end(ty) ==
    Apply(LAMBDA m : IF m.r.st = "Ok" /\ check_key(m.d).r # Ok(FALSE)
                     THEN Fail([m EXCEPT !.d = check_key(m.d).d],
                               Err(Custom("trailing", <<>>)))
                     ELSE m,
          Begin(ty, [d |-> NewCursor, stack |-> <<>>, r |-> NoResult]))

\* from_str::<T>(s)
from_str(ty) == Begin(ty, [d |-> NewCursor, stack |-> <<>>, r |-> NoResult])

-----
(* Inputs *)

\* the line "key: value" after `indent` blanks
Line(indent, key, value) ==
    [i \in 1..indent |-> Code[" "]] \o key \o <<Code[":"], Code[" "]>> \o value

TextTrue == Str(<<"t", "r", "u", "e">>)
TextFalse == Str(<<"f", "a", "l", "s", "e">>)

\* lines the cursor is exercised with: valid Definitions at two depths, a
\* blank line, a comment, a line without separator, a line without key
CursorLines ==
    { Line(0, Str(<<"b">>), TextTrue),
      Line(2, Str(<<"i", "n", "t">>), Str(<<"-", "5">>)),
      <<>>,
      Str(<<"#", " ", "x">>),
      Str(<<"t", "r", "u", "e">>),
      Str(<<":", " ", "7">>) }

\* every sequence of at most n lines of S
RECURSIVE SeqsUpTo(_, _)
SeqsUpTo(S, n) ==
    IF n = 0 THEN {<<>>}
    ELSE LET shorter == SeqsUpTo(S, n - 1)
         IN  shorter \cup { Append(q, x) : q \in shorter, x \in S }

\* value texts for the boolean decode
BoolTexts ==
    { TextTrue, TextFalse, Str(<<"T", "r", "u", "e">>), Str(<<"T", "R", "U", "E">>),
      Str(<<"1">>), <<>>, Str(<<"t", "r", "u", "e", " ", "f", "a", "l", "s", "e">>),
      Str(<<"f", "a", "l", "s", "e", " ", "t", "r", "u", "e", " ", "t", "r", "u", "e",
            " ", "f", "a", "l", "s", "e">>) }

\* value texts for the character decode: one character of 1, 2, 3 and 4
\* bytes, and texts of two characters
CharTexts ==
    { Str(<<"a">>), Str(<<"e_acute">>), Str(<<"euro">>), Str(<<"grin">>),
      Str(<<"a", "b">>), Str(<<"e_acute", "a">>) }

\* value texts for the integer decodes: for each target its largest value
\* (T::MAX), the number after it, its smallest value and the number before it
IntTexts ==
    UNION { { IntText(FALSE, MaxDigits(t)),
              IntText(FALSE, PlusOne(MaxDigits(t))),
              IntText(TRUE, MinDigits(t)),
              IntText(TRUE, PlusOne(MinDigits(t))) } : t \in IntTargets }
        \cup { Str(<<"7">>), Str(<<"-", "5">>), Str(<<"+", "7">>), Str(<<"0", "0", "7">>),
               Str(<<"-">>), Str(<<"7", "x">>) }

ScalarTexts == BoolTexts \cup CharTexts \cup IntTexts

\* the inputs of the model
Corpus ==
    SeqsUpTo(CursorLines, MaxLines)
        \cup { <<Line(0, Str(<<"x">>), v)>> : v \in ScalarTexts }

-----------------------------------------------------------------------------
(* A caller that makes requests of a Deserializer in any order *)

Init ==
    /\ input \in Corpus
    /\ defs = NewCursor
    /\ op = "from_str"
    /\ res = NoResult
    /\ last_peek = None
    /\ target = Scalar("unit")
    /\ stack = <<>>

\* the call `name` returned c.r and left the cursor in state c.d
Call(name, c) ==
    /\ res.st # "Abort"
    /\ defs' = c.d
    /\ op' = name
    /\ res' = c.r
    /\ last_peek' = IF op = "peek_key" THEN [k |-> "Some", r |-> res] ELSE None
    /\ UNCHANGED <<input, target, stack>>

CheckKey == Call("check_key", check_key(defs))
PeekKey == Call("peek_key", peek_key(defs))
GetValue == Call("get_value", get_value(defs))
DeserializeAny == Call("any", deserialize_any(defs))
DeserializeIgnoredAny == Call("ignored_any", deserialize_ignored_any(defs))
DeserializeBool == Call("bool", deserialize_bool(defs))
DeserializeI8 == Call("i8", deserialize_i8(defs))
DeserializeI16 == Call("i16", deserialize_i16(defs))
DeserializeI32 == Call("i32", deserialize_i32(defs))
DeserializeI64 == Call("i64", deserialize_i64(defs))
DeserializeU8 == Call("u8", deserialize_u8(defs))
DeserializeU16 == Call("u16", deserialize_u16(defs))
DeserializeU32 == Call("u32", deserialize_u32(defs))
DeserializeU64 == Call("u64", deserialize_u64(defs))
DeserializeF32 == Call("f32", deserialize_f32(defs))
DeserializeF64 == Call("f64", deserialize_f64(defs))
DeserializeChar == Call("char", deserialize_char(defs))
DeserializeStr == Call("str", deserialize_str(defs))
DeserializeString == Call("string", deserialize_string(defs))
DeserializeBytes == Call("bytes", deserialize_bytes(defs))
DeserializeByteBuf == Call("byte_buf", deserialize_byte_buf(defs))
DeserializeUnit == Call("unit", deserialize_unit(defs))
DeserializeUnitStruct == Call("unit_struct", deserialize_unit_struct(defs))
DeserializeEnum == Call("enum", deserialize_enum(defs))
DeserializeIdentifier == Call("identifier", deserialize_identifier(defs))

Next ==
    \/ CheckKey
    \/ PeekKey
    \/ GetValue
    \/ DeserializeAny
    \/ DeserializeIgnoredAny
    \/ DeserializeBool
    \/ DeserializeI8
    \/ DeserializeI16
    \/ DeserializeI32
    \/ DeserializeI64
    \/ DeserializeU8
    \/ DeserializeU16
    \/ DeserializeU32
    \/ DeserializeU64
    \/ DeserializeF32
    \/ DeserializeF64
    \/ DeserializeChar
    \/ DeserializeStr
    \/ DeserializeString
    \/ DeserializeBytes
    \/ DeserializeByteBuf
    \/ DeserializeUnit
    \/ DeserializeUnitStruct
    \/ DeserializeEnum
    \/ DeserializeIdentifier

Spec == Init /\ [][Next]_vars

-----------------------------------------------------------------------------------------------------------------------------------------------------
(* from_str on a target type: serde's visitors pull from the Deserializer  *)

Name(cs) == Str(cs)

TextHello == Str(<<"H", "e", "l", "l", "o">>)
TextHelloWorld == Str(<<"H", "e", "l", "l", "o", " ", "W", "o", "r", "l", "d">>)
TextFlags == Str(<<"f", "a", "l", "s", "e", " ", "t", "r", "u", "e", " ",
                   "t", "r", "u", "e", " ", "f", "a", "l", "s", "e">>)

KeyB == Name(<<"b">>)
KeyUint == Name(<<"u", "i", "n", "t">>)
KeyInt == Name(<<"i", "n", "t">>)
KeyC == Name(<<"c">>)
KeyFlags == Name(<<"f", "l", "a", "g", "s">>)
KeyValues == Name(<<"v", "a", "l", "u", "e", "s">>)

\* struct A { b: bool, uint: u32, int: i32 } of the tests
TargetA ==
    Struct(<<Field(KeyB, Scalar("bool")), Field(KeyUint, Scalar("u32")),
             Field(KeyInt, Scalar("i32"))>>)

\* struct B { flags: Vec<bool>, values: Vec<String> } of the tests
TargetB ==
    Struct(<<Field(KeyFlags, SeqOf(Scalar("bool"))),
             Field(KeyValues, SeqOf(Scalar("string")))>>)

\* the input of test struct_a
InputA ==
    <<Line(0, KeyB, TextFalse), Line(0, KeyUint, Str(<<"7">>)),
      Line(0, KeyInt, Str(<<"-", "5">>))>>

\* the input of test struct_b
InputB == <<Line(0, KeyFlags, TextFlags), Line(0, KeyValues, TextHelloWorld)>>

\* the target types from_str is called with
Targets ==
    { TargetA, TargetB,
      Struct(<<Field(KeyB, Scalar("bool"))>>),
      Struct(<<Field(KeyInt, Scalar("i32")), Field(KeyB, Scalar("bool"))>>),
      Struct(<<Field(KeyC, Scalar("char"))>>),
      Struct(<<Field(KeyValues, SeqOf(Scalar("string")))>>),
      SeqOf(Scalar("string")),
      SeqOf(Scalar("unit")),
      TupleOf(<<Scalar("bool"), Scalar("bool")>>),
      Scalar("bool"),
      OptionOf(Scalar("bool")) }

\* the lines of the inputs from_str is called with
DecodeLines ==
    { Line(0, KeyB, TextFalse), Line(0, KeyB, TextTrue),
      Line(0, KeyUint, Str(<<"7">>)), Line(0, KeyInt, Str(<<"-", "5">>)),
      Line(0, KeyC, Str(<<"a">>)), Line(0, KeyC, Str(<<"e_acute">>)),
      Line(0, KeyFlags, TextFlags), Line(0, KeyValues, TextHelloWorld),
      Line(0, KeyValues, TextHello),
      <<>>,
      Str(<<"t", "r", "u", "e">>) }

DecodeCorpus == SeqsUpTo(DecodeLines, MaxLines)

\* the requests that decode one scalar, and the unit request
ShapeRequests ==
    {"bool", "char", "str", "string", "unit"} \cup {TargetName(t) : t \in IntTargets}

\* for each of these requests: the scalar itself, and the scalar under
\* Option, under a newtype struct, as the element of a Vec, as the second
\* element of a pair and (but for the unit) as the value of a BTreeMap with
\* text keys; a Vec
\* of Option<()>, an Option of Vec<bool>, a pair of units, tuple structs
\* of two, one and no booleans, the empty tuple (the array [T; 0]), a Vec
\* of tuple structs without elements, a Vec of pairs and a BTreeMap with
\* boolean keys
ShapeTargets ==
    UNION { { Scalar(q), OptionOf(Scalar(q)), NewtypeOf(Scalar(q)), SeqOf(Scalar(q)),
              TupleOf(<<Scalar("string"), Scalar(q)>>) } :
              q \in ShapeRequests }
        \cup { MapOf(Scalar("string"), Scalar(q)) : q \in ShapeRequests \ {"unit"} }
        \cup { SeqOf(OptionOf(Scalar("unit"))), OptionOf(SeqOf(Scalar("bool"))),
               TupleOf(<<Scalar("unit"), Scalar("unit")>>),
               TupleStructOf(Name(<<"T">>), <<Scalar("bool"), Scalar("bool")>>),
               TupleStructOf(Name(<<"T">>), <<Scalar("bool")>>),
               TupleStructOf(Name(<<"T">>), <<>>),
               TupleOf(<<>>),
               SeqOf(TupleStructOf(Name(<<"T">>), <<>>)),
               SeqOf(TupleOf(<<Scalar("string"), Scalar("bool")>>)),
               MapOf(Scalar("bool"), Scalar("bool")) }

\* a line without separator alone, and inputs of two and of four valid
\* Definitions, for the pairs and the maps
PairCorpus ==
    { <<Str(<<"t", "r", "u", "e">>)>>,
      <<Line(0, KeyB, TextTrue), Line(0, KeyC, TextFalse)>>,
      <<Line(0, KeyB, Str(<<"a">>)), Line(0, KeyB, TextTrue),
        Line(0, KeyC, Str(<<"a", "b">>)), Line(0, KeyC, TextFalse)>>,
      <<Line(0, KeyB, Str(<<"a">>)), Line(0, KeyInt, Str(<<"7">>)),
        Line(0, KeyC, Str(<<"a", "b">>)), Line(2, KeyInt, Str(<<"-", "5">>))>> }

\* the inputs these targets are decoded from: the empty input and, for
\* each value text v, the line `x: v` alone, followed by a valid line at a
\* greater depth, and followed by a line without separator
ShapeCorpus ==
    {<<>>} \cup PairCorpus
        \cup UNION { { <<Line(0, Str(<<"x">>), v)>>,
                       <<Line(0, Str(<<"x">>), v), Line(2, KeyInt, Str(<<"-", "5">>))>>,
                       <<Line(0, Str(<<"x">>), v), Str(<<"t", "r", "u", "e">>)>> } :
                     v \in ScalarTexts }

InitFromStr ==
    /\ \/ input \in DecodeCorpus /\ target \in Targets
       \/ input \in ShapeCorpus /\ target \in ShapeTargets
    /\ defs = NewCursor
    /\ op = "new"
    /\ res = NoResult
    /\ last_peek = None
    /\ stack = <<>>

\* the running decode
Machine == [d |-> defs, stack |-> stack, r |-> res]

\* the handler `name` left the decode in state m
Step(name, after) ==
    \E m \in {after} :
        /\ defs' = m.d
        /\ stack' = m.stack
        /\ res' = m.r
        /\ op' = name
        /\ last_peek' = None
        /\ UNCHANGED <<input, target>>

Running == op # "new" /\ res.st = "None" /\ stack # <<>>

\* from_str(input): build the Deserializer and call T::deserialize
FromStr ==
    /\ op = "new"
    /\ Step("from_str", from_str(target))

\* the visitor of a Vec, a tuple or a tuple struct pulls the next element
NextElementSeed ==
    /\ Running
    /\ Top(Machine).f \in {"seq", "tuple"}
    /\ Len(Top(Machine).acc) < MaxElements
    /\ Step("next_element_seed", next_element_seed(Machine))

\* a frame of a visit_map that is due to pull a key
KeyDue(fr) ==
    \/ fr.f = "struct" /\ fr.wait = 0
    \/ fr.f = "map" /\ fr.key = <<>>

\* a frame of a visit_map that has pulled a key and is due to pull its value
ValueDue(fr) ==
    \/ fr.f = "struct" /\ fr.wait # 0
    \/ fr.f = "map" /\ fr.key # <<>>

\* the visitor of a struct or of a map pulls the next key
NextKeySeed ==
    /\ Running
    /\ KeyDue(Top(Machine))
    /\ Step("next_key_seed", next_key_seed(Machine))

\* the visitor pulls the value of the key it has just read
NextValueSeed ==
    /\ Running
    /\ ValueDue(Top(Machine))
    /\ Step("next_value_seed", next_value_seed(Machine))

NextFromStr ==
    \/ FromStr
    \/ NextElementSeed
    \/ NextKeySeed
    \/ NextValueSeed

SpecFromStr == InitFromStr /\ [][NextFromStr]_vars

\* from_str runs on one thread without suspension points: a decode that can
\* take a step takes it
SpecFromStrLive == SpecFromStr /\ WF_vars(NextFromStr)

\* from_str has returned
Done == op # "new" /\ res.st # "None"

-----
(* The Definitions of the input, in source order *)

RECURSIVE DefsAfter(_)
\* the Definitions of the lines after line ln
DefsAfter(ln) ==
    IF ln >= Len(input) THEN <<>>
    ELSE IF IsSkipped(input[ln + 1]) THEN DefsAfter(ln + 1)
    ELSE <<Tokenize(input[ln + 1], ln + 1)>> \o DefsAfter(ln + 1)

\* every Definition of the input
AllDefs == DefsAfter(0)

\* the Definitions cursor state d has still to hand out: the one in the
\* lookahead slot, then those of the lines not yet read
Unconsumed(d) ==
    (IF d.peeked # <<>> /\ d.peeked[1].k # "None" THEN <<d.peeked[1]>> ELSE <<>>)
        \o DefsAfter(d.line)

\* the earliest Definition not yet consumed, when there is one
HasCurrent == defs.consumed < Len(AllDefs)
Current == AllDefs[defs.consumed + 1]
CurrentValid == HasCurrent /\ Current.k = "Valid"
CurrentInvalid == HasCurrent /\ Current.k = "Invalid"

IntRequests == {TargetName(t) : t \in IntTargets}
ScalarRequests == {"bool", "char", "str", "string"} \cup IntRequests
PeekCalls == {"check_key", "peek_key"}
CursorCalls == {"check_key", "peek_key", "get_value"}
UnimplementedRequests == {"any", "ignored_any", "f32", "f64", "bytes", "byte_buf"}

\* the text of the largest value of target t, and of the number after it
MaxText(t) == IntText(FALSE, MaxDigits(t))
PastMaxText(t) == IntText(FALSE, PlusOne(MaxDigits(t)))

-----------------------------------------------------------------------------------------------------------------------------------------------------
(* Records and sequences *)

\* the request that serves integer target name q
TargetOf(q) == CHOOSE t \in IntTargets : TargetName(t) = q

\* the value text v is valid text for the scalar request q
ValidText(q, v) ==
    CASE q = "bool" -> v \in {TextTrue, TextFalse}
      [] q = "char" -> Len(v) = 1
      [] q \in {"str", "string"} -> TRUE
      [] q \in IntRequests -> IntParse(v, TargetOf(q)).k = "Some"
      [] OTHER -> FALSE

\* the value that the valid text v stands for under the scalar request q
Conversion(q, v) ==
    CASE q = "bool" -> Visit("bool", v = TextTrue)
      [] q = "char" -> Visit("char", v[1])
      [] q \in {"str", "string"} -> Visit("str", v)
      [] q \in IntRequests -> Visit(q, IntParse(v, TargetOf(q)).v)

RECURSIVE Tokens(_)
\* the whitespace-separated tokens of a text
Tokens(v) ==
    IF TrimStart(v) = <<>> THEN <<>>
    ELSE LET w == TrimStart(v)
             n == IF \E i \in 1..Len(w) : IsSpace(w[i])
                  THEN (CHOOSE i \in 1..Len(w) :
                            IsSpace(w[i]) /\ \A j \in 1..(i - 1) : ~IsSpace(w[j])) - 1
                  ELSE Len(w)
         IN  <<SubSeq(w, 1, n)>> \o Tokens(SubSeq(w, n + 1, Len(w)))

\* the input is one line per Definition, all valid and at one depth
PlainInput ==
    /\ Len(AllDefs) = Len(input)
    /\ \A i \in 1..Len(AllDefs) :
          AllDefs[i].k = "Valid" /\ AllDefs[i].indent = AllDefs[1].indent

\* the Definition that carries the key of field fd
DefOf(fd) == AllDefs[CHOOSE i \in 1..Len(AllDefs) : AllDefs[i].key = fd.name]

\* the target is a record of scalar fields and the input has one valid line
\* for each field, in any order, with valid text for the field's type
MatchesRecord ==
    /\ target.k = "struct"
    /\ \A i \in 1..Len(target.fields) :
          target.fields[i].ty.k = "scalar" /\ target.fields[i].ty.q \in ScalarRequests
    /\ PlainInput
    /\ Len(AllDefs) = Len(target.fields)
    /\ \A i \in 1..Len(target.fields) :
          /\ Cardinality({j \in 1..Len(AllDefs) :
                             AllDefs[j].key = target.fields[i].name}) = 1
          /\ ValidText(target.fields[i].ty.q, DefOf(target.fields[i]).value)

\* the record the claim expects of such an input
ExpectedRecord ==
    Visit("struct",
          [i \in 1..Len(target.fields) |->
              Conversion(target.fields[i].ty.q, DefOf(target.fields[i]).value)])

HasCharField ==
    \E i \in 1..Len(target.fields) : target.fields[i].ty.q = "char"

\* C1: for an input of N valid lines `key: value` whose keys are the field
\* names of a target record with N scalar fields and whose values are valid
\* text for the fields' types, from_str returns the record in which each
\* field holds the conversion of the value of the line with its key.
C1_RecordDecode == (Done /\ MatchesRecord) => res = Ok(ExpectedRecord)

\* C1, the part the code satisfies: records without a character field
C1_RecordExceptChar ==
    (Done /\ MatchesRecord /\ ~HasCharField) => res = Ok(ExpectedRecord)

\* C1, end-to-end scenario A: {b: false, uint: 7, int: -5}
C1_ScenarioA ==
    (Done /\ target = TargetA /\ input = InputA) =>
        res = Ok(Visit("struct", <<Visit("bool", FALSE), Visit("u32", Str(<<"7">>)),
                                   Visit("i32", Str(<<"-", "5">>))>>))

\* scenario A has been decoded
C1_ScenarioAReached == Done /\ target = TargetA /\ input = InputA /\ res.st = "Ok"

\* the target is a record of sequences of scalars and the input has one
\* valid line for each field, in the order of the fields, each token of its
\* value valid text for the element type
MatchesSeqRecord ==
    /\ target.k = "struct"
    /\ \A i \in 1..Len(target.fields) :
          /\ target.fields[i].ty.k = "seq"
          /\ target.fields[i].ty.of.k = "scalar"
          /\ target.fields[i].ty.of.q \in ScalarRequests
    /\ PlainInput
    /\ Len(AllDefs) = Len(target.fields)
    /\ \A i \in 1..Len(target.fields) :
          /\ AllDefs[i].key = target.fields[i].name
          /\ \A j \in 1..Len(Tokens(AllDefs[i].value)) :
                ValidText(target.fields[i].ty.of.q, Tokens(AllDefs[i].value)[j])

\* the record the claim expects: one element per token, in order
ExpectedSeqRecord ==
    Visit("struct",
          [i \in 1..Len(target.fields) |->
              Visit("seq",
                    [j \in 1..Len(Tokens(AllDefs[i].value)) |->
                        Conversion(target.fields[i].ty.of.q,
                                   Tokens(AllDefs[i].value)[j])])])

\* C2: a record field decoded as a sequence from a line whose value has k
\* whitespace-separated tokens gets exactly k elements, one per token in
\* order, and the next field is decoded from the next line.
C2_SequencePerToken == (Done /\ MatchesSeqRecord) => res = Ok(ExpectedSeqRecord)

\* C2, end-to-end scenario B as the test struct_b states it
C2_ScenarioB ==
    (Done /\ target = TargetB /\ input = InputB) =>
        res = Ok(Visit("struct",
                       <<Visit("seq", <<Visit("bool", FALSE), Visit("bool", TRUE),
                                        Visit("bool", TRUE), Visit("bool", FALSE)>>),
                         Visit("seq", <<Visit("str", TextHello),
                                        Visit("str", Str(<<"W", "o", "r", "l", "d">>))>>)>>))

\* C2, what the code does in scenario B: the first element of flags is
\* decoded from the whole value text of the line and is no boolean
C2_ScenarioBFails ==
    (Done /\ target = TargetB /\ input = InputB) => res = Err(ExpectedBoolean)

\* C2, what the code does with `values: Hello World` as a sequence of text:
\* one element, the whole value text
C2_WholeValueIsOneElement ==
    (Done /\ target = SeqOf(Scalar("string"))
          /\ input = <<Line(0, KeyValues, TextHelloWorld)>>) =>
        res = Ok(Visit("seq", <<Visit("str", TextHelloWorld)>>))

-----
(* Scalar decodes *)

\* C3: for every integer target, decoding the literal of the target's
\* largest value succeeds with that value, and decoding the literal of the
\* number after it fails with ExpectedInteger (the 8-bit signed target
\* included: "127" succeeds, "128" fails).
C3_IntegerBoundary ==
    [][\A t \in IntTargets :
          (op' = TargetName(t) /\ CurrentValid) =>
              /\ Current.value = MaxText(t) =>
                    res' = Ok(Visit(TargetName(t), MaxText(t)))
              /\ Current.value = PastMaxText(t) => res' = Err(ExpectedInteger)]_vars

\* C3, the part the code satisfies: the boundary law for every target but
\* i8, and for i8 the largest value "127" alone
C3_BoundaryExceptI8 ==
    [][\A t \in IntTargets :
          (op' = TargetName(t) /\ CurrentValid) =>
              /\ Current.value = MaxText(t) =>
                    res' = Ok(Visit(TargetName(t), MaxText(t)))
              /\ (Current.value = PastMaxText(t) /\ TargetName(t) # "i8") =>
                    res' = Err(ExpectedInteger)]_vars

\* C3, what the code does for i8 past the boundary: "128" decodes to -128
C3_I8Wraps ==
    op = "i8" /\ res.st = "Ok" /\ input = <<Line(0, Str(<<"x">>), Str(<<"1", "2", "8">>))>>
        => res = Ok(Visit("i8", Str(<<"-", "1", "2", "8">>)))

\* C4: a boolean decode of a valid Definition returns true for the value
\* text "true", false for "false", and fails with ExpectedBoolean for every
\* other value text.
C4_BoolDecode ==
    [][(op' = "bool" /\ CurrentValid) =>
          /\ Current.value = TextTrue => res' = Ok(Visit("bool", TRUE))
          /\ Current.value = TextFalse => res' = Ok(Visit("bool", FALSE))
          /\ Current.value \notin {TextTrue, TextFalse} =>
                res' = Err(ExpectedBoolean)]_vars

\* a boolean decode has rejected "True"
C4_Witness ==
    /\ op = "bool"
    /\ res = Err(ExpectedBoolean)
    /\ input = <<Line(0, Str(<<"x">>), Str(<<"T", "r", "u", "e">>))>>

\* C5: a character decode of a valid Definition returns the character when
\* the value text has exactly one character, whatever the number of bytes of
\* its encoding, and fails with ExpectedChar otherwise.
C5_CharDecode ==
    [][(op' = "char" /\ CurrentValid) =>
          IF Len(Current.value) = 1
          THEN res' = Ok(Visit("char", Current.value[1]))
          ELSE res' = Err(ExpectedChar)]_vars

\* C5, what the code does: the character is returned exactly when the value
\* text is one byte long
C5_CharDecodeOneByte ==
    [][(op' = "char" /\ CurrentValid) =>
          IF ByteLen(Current.value) = 1
          THEN res' = Ok(Visit("char", Current.value[1]))
          ELSE res' = Err(ExpectedChar)]_vars

-----------------------------------------------------------------------------
(* The Definition cursor *)

\* C6: when peek_key succeeds and get_value is the next call, the key and
\* the value returned are those of one Definition, the earliest Definition
\* of the input not yet consumed.
C6_PeekThenTake ==
    [][(op = "peek_key" /\ res.st = "Ok" /\ op' = "get_value") =>
          /\ CurrentValid
          /\ res.v = Current.key
          /\ res' = Ok(Current.value)
          /\ Unconsumed(defs) # <<>> /\ Head(Unconsumed(defs)) = Current]_vars

\* get_value, called right after a successful peek_key, has returned the
\* value of the second Definition of the input
C6_Witness ==
    /\ op = "get_value"
    /\ res.st = "Ok"
    /\ last_peek.k = "Some"
    /\ last_peek.r.st = "Ok"
    /\ defs.consumed = 2

\* C7: the Definitions pulled from the tokenizer exceed those consumed by
\* at most one; check_key and peek_key leave the Definitions still to be
\* consumed unchanged; consecutive calls of them agree: the same call
\* returns the same result, check_key is true exactly when peek_key
\* succeeds, false exactly when peek_key fails with Eof, and both fail with
\* the same error on an invalid Definition.
C7_OneStepLookahead ==
    [][/\ defs'.pulled - defs'.consumed \in {0, 1}
       /\ op' \in PeekCalls =>
             /\ Unconsumed(defs') = Unconsumed(defs)
             /\ defs'.consumed = defs.consumed
       /\ (op \in PeekCalls /\ op' = op) => res' = res
       /\ (op = "check_key" /\ op' = "peek_key") =>
             /\ res.st = "Err" => res' = res
             /\ (res.st = "Ok" /\ res.v) => res'.st = "Ok"
             /\ (res.st = "Ok" /\ ~res.v) => res' = Err(Eof)
       /\ (op = "peek_key" /\ op' = "check_key") =>
             /\ res.st = "Ok" => res' = Ok(TRUE)
             /\ (res.st = "Err" /\ res.e.kind = "Eof") => res' = Ok(FALSE)
             /\ (res.st = "Err" /\ res.e.kind # "Eof") => res' = res]_vars

\* a Definition is buffered by a peek over an input of several Definitions,
\* after one has been consumed
C7_Witness ==
    /\ op \in PeekCalls
    /\ defs.peeked # <<>>
    /\ defs.pulled = 2
    /\ defs.consumed = 1
    /\ Len(AllDefs) >= 3

\* C8: when the earliest unconsumed Definition is invalid, check_key,
\* peek_key and get_value each fail with FailedParse carrying the error
\* descriptor and the line number of that Definition.
C8_InvalidSurfaced ==
    [][(CurrentInvalid /\ op' \in CursorCalls) =>
          res' = Err(FailedParse(Format(Current.e, Current.ln)))]_vars

\* get_value has failed on an invalid Definition that follows a skipped
\* line and a consumed Definition
C8_Witness ==
    /\ op = "get_value"
    /\ res.st = "Err"
    /\ res.e.kind = "FailedParse"
    /\ defs.consumed = 2
    /\ defs.line = 3

\* C9: when no Definition remains, check_key returns false, peek_key and
\* get_value fail with Eof, and so does every scalar decode.
C9_EndOfInput ==
    [][~HasCurrent =>
          /\ op' = "check_key" => res' = Ok(FALSE)
          /\ op' \in {"peek_key", "get_value", "identifier"} => res' = Err(Eof)
          /\ op' \in ScalarRequests => res' = Err(Eof)]_vars

\* a boolean decode has failed with Eof after every Definition of a
\* non-empty input was consumed
C9_Witness ==
    /\ op = "bool"
    /\ res = Err(Eof)
    /\ Len(AllDefs) >= 2
    /\ defs.consumed = Len(AllDefs)

\* C10: an enum request fails with ExpectedEnum, a floating-point,
\* byte-buffer or generic request aborts, and none of them produces a value
\* or consumes a Definition.
C10_Unsupported ==
    [][/\ op' = "enum" => res' = Err(ExpectedEnum)
       /\ op' \in UnimplementedRequests => res' = Abort
       /\ op' \in UnimplementedRequests \cup {"enum"} =>
             /\ res'.st # "Ok"
             /\ defs'.consumed = defs.consumed
             /\ Unconsumed(defs') = Unconsumed(defs)]_vars

\* an enum request has failed while a valid Definition was waiting
C10_Witness ==
    /\ op = "enum"
    /\ res = Err(ExpectedEnum)
    /\ CurrentValid

-----------------------------------------------------------------------------
(* Termination of from_str *)

RECURSIVE ConsumesNothing(_)
\* a decode of the type ty succeeds without taking a Definition: the unit,
\* alone, under Option and newtype wrappers, or in a tuple of such types
ConsumesNothing(ty) ==
    CASE ty.k = "scalar" -> ty.q \in {"unit", "unit_struct"}
      [] ty.k \in {"option", "newtype"} -> ConsumesNothing(ty.of)
      [] ty.k \in {"tuple", "tuple_struct"} ->
            \A i \in 1..Len(ty.of) : ConsumesNothing(ty.of[i])
      [] OTHER -> FALSE

\* the target is a sequence of such elements, and the input starts with a
\* valid Definition
UnitElementsOverDefinition ==
    /\ target.k = "seq"
    /\ ConsumesNothing(target.of)
    /\ AllDefs # <<>>
    /\ AllDefs[1].k = "Valid"

\* the step is a pull of an element that leaves the Deserializer and the
\* pending visitors as they were, but for one more element collected
PullRepeats ==
    /\ op' = "next_element_seed"
    /\ res' = NoResult
    /\ defs' = defs
    /\ Len(stack') = Len(stack)
    /\ stack'[Len(stack)].f = "seq"
    /\ Len(stack'[Len(stack)].acc) = Len(Top(Machine).acc) + 1
    /\ stack = [stack' EXCEPT ![Len(stack)].acc = Top(Machine).acc]

\* C11: for every input and every target built from the supported requests,
\* a sequence of unit elements included, from_str eventually returns a value
\* or an error and never pulls elements forever.  The decode is
\* deterministic and a pull does not read the elements collected so far, so
\* a pull that changes nothing but the number of elements collected is
\* followed by the same pull, forever: from_str returns only if no pull is
\* of that kind.
C11_NoPullRepeats == [][~PullRepeats]_vars

\* C11 as a temporal formula, under weak fairness of the decode's steps: the
\* model follows a sequence for MaxElements elements, which is where the
\* behaviour that refutes it stops; the code goes on
C11_Terminates == <>Done

\* C11, the part the code satisfies: only a pull of an element that consumes
\* nothing repeats
C11_OnlyUnitPullRepeats == [][PullRepeats => ConsumesNothing(Top(Machine).ty)]_vars

\* C11, the part the code satisfies: from_str returns unless the target is
\* a sequence of elements that consume nothing and a valid Definition is at
\* the front of the input
C11_TerminatesOtherwise == UnitElementsOverDefinition \/ <>Done

\* C11, what the code does in that case: a pull of an element that consumes
\* nothing leaves the cursor where it was, with the same valid Definition at
\* its front, and the visitor pulls again; the loop has no exit
C11_UnitPullLeavesCursor ==
    [][(/\ op' = "next_element_seed"
        /\ Top(Machine).f = "seq"
        /\ ConsumesNothing(Top(Machine).ty)
        /\ CurrentValid)
       => (/\ res' = NoResult
           /\ defs'.consumed = defs.consumed
           /\ check_key(defs').r = Ok(TRUE)
           /\ Len(stack') = Len(stack)
           /\ stack'[Len(stack')].f = "seq"
           /\ Len(stack'[Len(stack')].acc) = Len(Top(Machine).acc) + 1)]_vars

\* a sequence of units has collected as many elements as the model follows,
\* from an input of one Definition, and has consumed none
C11_UnitLoopReached ==
    /\ target = SeqOf(Scalar("unit"))
    /\ Len(AllDefs) = 1
    /\ stack # <<>>
    /\ Len(stack[1].acc) = MaxElements
    /\ defs.consumed = 0

-----------------------------------------------------------------------------
(* The sequence cursor *)

\* the step returned Ok(None) to the visitor that pulled: its frame is gone
\* and the decode has not failed
CursorEnded == res'.st \in {"None", "Ok"} /\ Len(stack') < Len(stack)

\* the step returned Ok(None) to the visitor of a tuple or of a tuple
\* struct, which reports the elements it has and the ones it expects
TupleCutShort ==
    res' = Err(InvalidLength(Len(Top(Machine).acc), Top(Machine).expected))

\* the pull of an element returned Ok(None), end-of-sequence
PullEnded == IF Top(Machine).f = "tuple" THEN TupleCutShort ELSE CursorEnded

\* the tuple visitor of the top frame is asking for its last element
LastOfTuple ==
    Top(Machine).f = "tuple" /\ Len(Top(Machine).acc) + 1 = Len(Top(Machine).tys)

\* the step decoded the scalar q from the Definition at the front: the
\* Definition is consumed and either its value text is refused or the value
\* is handed to the visitor of the top frame, which collects it; a tuple
\* visitor that has its last element returns, without another pull
ElementDecoded(q) ==
    /\ defs'.consumed = defs.consumed + 1
    /\ \/ /\ res'.st = "Err"
          /\ res'.e \in {ExpectedBoolean, ExpectedChar, ExpectedInteger}
          /\ q \notin {"str", "string"}
       \/ /\ LastOfTuple
          /\ res'.st \in {"None", "Ok"}
          /\ Len(stack') = Len(stack) - 1
          /\ defs'.peeked = <<>>
          /\ Len(stack) = 1 =>
                /\ res'.st = "Ok"
                /\ res'.v.t = Top(Machine).t
                /\ SubSeq(res'.v.v, 1, Len(Top(Machine).acc)) = Top(Machine).acc
                /\ Len(res'.v.v) = Len(Top(Machine).tys)
                /\ q = "bool" =>
                      res'.v.v[Len(res'.v.v)] = Visit("bool", Current.value = TextTrue)
       \/ /\ ~LastOfTuple
          /\ res' = NoResult
          /\ Len(stack') = Len(stack)
          /\ Len(stack'[Len(stack)].acc) = Len(Top(Machine).acc) + 1
          /\ SubSeq(stack'[Len(stack)].acc, 1, Len(Top(Machine).acc)) = Top(Machine).acc
          /\ q \in {"str", "string"} =>
                stack'[Len(stack)].acc[Len(Top(Machine).acc) + 1] = Visit("str", Current.value)
          /\ q = "bool" =>
                stack'[Len(stack)].acc[Len(Top(Machine).acc) + 1] =
                    Visit("bool", Current.value = TextTrue)

\* C12: a pull of the next element of a sequence returns end-of-sequence if
\* and only if no Definition remains in the whole input; when a valid
\* Definition remains, whatever its depth and key, a scalar element is
\* decoded from it; so a sequence of scalars has consumed every Definition
\* of the input when it ends.  (The pull is the same for a Vec, a tuple and
\* a tuple struct.  A tuple visitor stops pulling once it has its elements:
\* the cursor is then never asked whether the sequence has ended.)
C12_SeqEndsAtEndOfInput ==
    [][op' = "next_element_seed" =>
          /\ PullEnded <=> ~HasCurrent
          /\ PullEnded => defs'.consumed = Len(AllDefs)
          /\ (/\ CurrentValid
              /\ ElementType(Top(Machine)).k = "scalar"
              /\ ElementType(Top(Machine)).q \in ScalarRequests)
             => ElementDecoded(ElementType(Top(Machine)).q)]_vars

\* a sequence of text has ended after it took an element from each of two
\* Definitions of different keys, the second one at a greater depth
C12_Witness ==
    /\ op = "next_element_seed"
    /\ target = SeqOf(Scalar("string"))
    /\ Len(AllDefs) = 2
    /\ AllDefs[1].k = "Valid" /\ AllDefs[2].k = "Valid"
    /\ AllDefs[2].indent > AllDefs[1].indent
    /\ AllDefs[2].key # AllDefs[1].key
    /\ defs.consumed = 2
    /\ res = Ok(Visit("seq", <<Visit("str", AllDefs[1].value),
                               Visit("str", AllDefs[2].value)>>))

-----------------------------------------------------------------------------
(* Definitions consumed and scalars decoded *)

RECURSIVE ScalarsIn(_)
RECURSIVE ScalarsInAll(_)
RECURSIVE ScalarsInEntries(_)

\* the number of scalars (booleans, characters, integers, texts) in the
\* value v that a visitor was handed
ScalarsIn(v) ==
    CASE v.t \in {"seq", "struct", "tuple", "tuple_struct"} -> ScalarsInAll(v.v)
      [] v.t = "map" -> ScalarsInEntries(v.v)
      [] v.t \in {"some", "newtype"} -> ScalarsIn(v.v)
      [] v.t \in {"none", "unit"} -> 0
      [] OTHER -> 1

\* the same for a sequence of values
ScalarsInAll(vs) ==
    IF Len(vs) = 0 THEN 0 ELSE ScalarsIn(vs[1]) + ScalarsInAll(Tail(vs))

\* the same for the entries of a map, keys and values.  An entry that
\* BTreeMap::insert replaced is no longer there to be counted: the inputs
\* of the map targets have no two entries of the same key
ScalarsInEntries(es) ==
    IF es = {} THEN 0
    ELSE Apply(LAMBDA e : ScalarsIn(e[1]) + ScalarsIn(e[2]) + ScalarsInEntries(es \ {e}),
               CHOOSE e \in es : TRUE)

RECURSIVE Concat(_)
\* the concatenation of a sequence of sequences
Concat(ss) == IF Len(ss) = 0 THEN <<>> ELSE ss[1] \o Concat(Tail(ss))

\* the scalars a pending visitor has been handed so far
ScalarsInFrame(fr) ==
    CASE fr.f \in {"seq", "tuple"} -> ScalarsInAll(fr.acc)
      [] fr.f = "map" -> ScalarsInEntries(fr.acc) + ScalarsInAll(fr.key)
      [] fr.f = "struct" -> ScalarsInAll(Concat(fr.got))
      [] OTHER -> 0

RECURSIVE ScalarsInFrames(_)
ScalarsInFrames(st) ==
    IF Len(st) = 0 THEN 0 ELSE ScalarsInFrame(st[1]) + ScalarsInFrames(Tail(st))

\* the scalar requests that have succeeded since from_str was called: each
\* handed one scalar to a visitor
ScalarsDecoded ==
    ScalarsInFrames(stack) + (IF res.st = "Ok" THEN ScalarsIn(res.v) ELSE 0)

\* C13: as long as every request has succeeded, the number of Definitions
\* consumed is the number of scalar requests made: a scalar request
\* (boolean, character, integer, text) consumes exactly one Definition; the
\* unit request, the opening of a sequence or of a mapping, the Option and
\* the newtype wrappers consume none.  (The key of a BTreeMap<String, V> is
\* a text request like any other: it consumes a Definition.)
C13_OneDefinitionPerScalar ==
    res.st \in {"None", "Ok"} => defs.consumed = ScalarsDecoded

\* a sequence of booleans under Option has been decoded from an input of
\* one Definition: the wrapper and the opening of the sequence consumed
\* nothing, the one element consumed the Definition
C13_Witness ==
    /\ Done
    /\ target = OptionOf(SeqOf(Scalar("bool")))
    /\ Len(AllDefs) = 1
    /\ res = Ok(Visit("some", Visit("seq", <<Visit("bool", TRUE)>>)))
    /\ defs.consumed = 1

-----------------------------------------------------------------------------
(* The mapping cursor *)

\* the key pull returned Ok(None): the visitor of the record finished, with
\* its record or with the first field it misses
MappingEnded ==
    \/ CursorEnded
    \/ res'.st = "Err" /\ res'.e.kind = "Custom" /\ res'.e.what = "missing_field"

\* the key pull handed the key to the visitor of the record, whose field i
\* it names (0: no field): the visitor waits for the value of that field,
\* or refuses a field it has already
KeyYielded(key, i) ==
    IF i = 0
    THEN res' = NoResult /\ stack' = [stack EXCEPT ![Len(stack)].wait = -1]
    ELSE IF Top(Machine).got[i] # <<>>
    THEN res' = Err(Custom("duplicate_field", key))
    ELSE res' = NoResult /\ stack' = [stack EXCEPT ![Len(stack)].wait = i]

\* the value pull decoded the scalar field i from the Definition at the
\* front
ValueDecoded(i, q) ==
    /\ defs'.consumed = defs.consumed + 1
    /\ \/ /\ res'.st = "Err"
          /\ res'.e \in {ExpectedBoolean, ExpectedChar, ExpectedInteger}
          /\ q \notin {"str", "string"}
       \/ /\ res' = NoResult
          /\ Len(stack') = Len(stack)
          /\ stack'[Len(stack)].wait = 0
          /\ Len(stack'[Len(stack)].got[i]) = 1
          /\ q = "bool" =>
                stack'[Len(stack)].got[i][1] = Visit("bool", Current.value = TextTrue)
          /\ q \in {"i32", "u32"} =>
                stack'[Len(stack)].got[i][1] = Visit(q, Current.value)

\* C14: a mapping cursor pulled for key and scalar value in turn yields as
\* its i-th key the key of the i-th Definition in source order (i - 1
\* Definitions are consumed when it is pulled), decodes the i-th value from
\* the value text of that same Definition, and returns end-of-mapping
\* exactly when no Definition remains.  (The keys are decoded as
\* identifiers by the visitor of a struct; see MapOfTextTakesValues for
\* keys that are decoded as text.)
C14_KeysInSourceOrder ==
    [][/\ (op' = "next_key_seed" /\ Top(Machine).f = "struct") =>
             /\ MappingEnded <=> ~HasCurrent
             /\ CurrentValid =>
                   /\ defs'.consumed = defs.consumed
                   /\ KeyYielded(Current.key, FieldIndex(Top(Machine).fields, Current.key))
       /\ (/\ op' = "next_value_seed"
           /\ Top(Machine).f = "struct"
           /\ Top(Machine).wait > 0
           /\ Top(Machine).fields[Top(Machine).wait].ty.k = "scalar")
          => /\ CurrentValid
             /\ Current.key = Top(Machine).fields[Top(Machine).wait].name
             /\ ValueDecoded(Top(Machine).wait,
                             Top(Machine).fields[Top(Machine).wait].ty.q)]_vars

\* the record A has been decoded from the lines uint, int, b in that order,
\* which is neither the order of its fields nor the sorted one
C14_Witness ==
    /\ Done
    /\ target = TargetA
    /\ input = <<Line(0, KeyUint, Str(<<"7">>)), Line(0, KeyInt, Str(<<"-", "5">>)),
                 Line(0, KeyB, TextFalse)>>
    /\ defs.consumed = 3
    /\ res = Ok(Visit("struct", <<Visit("bool", FALSE), Visit("u32", Str(<<"7">>)),
                                  Visit("i32", Str(<<"-", "5">>))>>))

\* the mapping cursor under the visitor of BTreeMap<String, V>: the key
\* seed is a text request, so the key pulled is the value text of the
\* Definition at the front, which is consumed; the value is decoded from
\* the Definition after it
MapOfTextTakesValues ==
    [][(/\ op' = "next_key_seed"
        /\ Top(Machine).f = "map"
        /\ Top(Machine).kty = Scalar("string")
        /\ CurrentValid)
       => (/\ res' = NoResult
           /\ defs'.consumed = defs.consumed + 1
           /\ stack' = [stack EXCEPT ![Len(stack)].key = <<Visit("str", Current.value)>>])]_vars

\* a map from text to booleans has been decoded from `b: true` and
\* `c: false`: its one entry has the first value text as its key
MapOfTextDecoded ==
    /\ Done
    /\ target = MapOf(Scalar("string"), Scalar("bool"))
    /\ input = <<Line(0, KeyB, TextTrue), Line(0, KeyC, TextFalse)>>
    /\ res = Ok(Visit("map", {<<Visit("str", TextTrue), Visit("bool", FALSE)>>}))
    /\ defs.consumed = 2

\* a pair of booleans has been decoded from the first two of three
\* Definitions; the third has not been read
PairDecoded ==
    /\ Done
    /\ target = TupleOf(<<Scalar("bool"), Scalar("bool")>>)
    /\ input = <<Line(0, KeyB, TextTrue), Line(0, KeyB, TextFalse), Line(0, KeyB, TextTrue)>>
    /\ res = Ok(Visit("tuple", <<Visit("bool", TRUE), Visit("bool", FALSE)>>))
    /\ defs = [line |-> 2, peeked |-> <<>>, pulled |-> 2, consumed |-> 2]

\* a tuple struct without elements has been decoded from an input whose
\* first line is malformed: the cursor was never asked
EmptyTupleStructDecoded ==
    /\ Done
    /\ target = TupleStructOf(Name(<<"T">>), <<>>)
    /\ input # <<>>
    /\ AllDefs[1].k = "Invalid"
    /\ op = "from_str"
    /\ res = Ok(Visit("tuple_struct", <<>>))
    /\ defs = NewCursor

\* a tuple struct of one boolean was asked of the empty input
SingleCutShort ==
    /\ Done
    /\ target = TupleStructOf(Name(<<"T">>), <<Scalar("bool")>>)
    /\ input = <<>>
    /\ res = Err(Custom("other",
                        Str(<<"i", "n", "v", "a", "l", "i", "d", " ", "l", "e", "n", "g",
                              "t", "h", " ", "0", ",", " ", "e", "x", "p", "e", "c", "t",
                              "e", "d", " ", "t", "u", "p", "l", "e", " ", "s", "t", "r",
                              "u", "c", "t", " ", "T", " ", "w", "i", "t", "h", " ", "1",
                              " ", "e", "l", "e", "m", "e", "n", "t">>)))

\* a pair of booleans was asked of an input of one Definition
PairCutShort ==
    /\ Done
    /\ target = TupleOf(<<Scalar("bool"), Scalar("bool")>>)
    /\ input = <<Line(0, KeyB, TextTrue)>>
    /\ res = Err(Custom("other",
                        Str(<<"i", "n", "v", "a", "l", "i", "d", " ", "l", "e", "n", "g",
                              "t", "h", " ", "1", ",", " ", "e", "x", "p", "e", "c", "t",
                              "e", "d", " ", "a", " ", "t", "u", "p", "l", "e", " ", "o",
                              "f", " ", "s", "i", "z", "e", " ", "2">>)))
    /\ defs = [line |-> 1, peeked |-> <<None>>, pulled |-> 1, consumed |-> 1]

-----------------------------------------------------------------------------
(* The optional decode *)

\* the result r of the inner decode, as visit_some hands it on
Present(r) == IF r.st = "Ok" THEN Ok(Visit("some", r.v)) ELSE r

\* what the decode of Option<T>, T the scalar request q, returns if it runs
\* the decode of T on the input and reports its value as present
InnerDecoded(q, c) == res = Present(c.r) /\ defs = c.d

\* C15: an optional decode always runs the inner decode and reports its
\* value as present; it never yields an absent value, and when the inner
\* decode fails (with Eof at the end of the input, on an empty value text)
\* it fails with the same error.
C15_OptionIsAlwaysPresent ==
    (Done /\ target.k = "option") =>
        /\ res.st = "Ok" => res.v.t = "some"
        /\ target.of.k = "scalar" =>
              /\ InnerDecoded(target.of.q, Deserialize(target.of.q, NewCursor))
              /\ (AllDefs = <<>> /\ target.of.q # "unit") => res = Err(Eof)
              /\ (/\ AllDefs # <<>>
                  /\ AllDefs[1].k = "Valid"
                  /\ AllDefs[1].value = <<>>)
                 => res = CASE target.of.q \in {"str", "string"} ->
                                 Ok(Visit("some", Visit("str", <<>>)))
                            [] target.of.q = "unit" ->
                                 Ok(Visit("some", Visit("unit", <<>>)))
                            [] target.of.q = "bool" -> Err(ExpectedBoolean)
                            [] target.of.q = "char" -> Err(ExpectedChar)
                            [] OTHER -> Err(ExpectedInteger)

\* an optional boolean was decoded from the empty input: the decode failed
\* with Eof
C15_Witness ==
    /\ Done
    /\ target = OptionOf(Scalar("bool"))
    /\ AllDefs = <<>>
    /\ res = Err(Eof)

-----------------------------------------------------------------------------
(* Errors *)

\* from_str has failed
Failed == res.st \in {"Err", "Abort"}

\* the first n Definitions of the input are valid
AllValidUpTo(n) == \A i \in 1..n : AllDefs[i].k = "Valid"

\* the error from_str returned is the first one of the input: that of the
\* first malformed Definition, with its line number, nothing being read
\* beyond it; any other error comes before a malformed Definition was read,
\* and a conversion error with nothing peeked after the Definition refused
ErrorIsFirst ==
    IF res.st = "Err" /\ res.e.kind = "FailedParse"
    THEN \E k \in 1..Len(AllDefs) :
            /\ AllDefs[k].k = "Invalid"
            /\ AllValidUpTo(k - 1)
            /\ res.e = FailedParse(Format(AllDefs[k].e, AllDefs[k].ln))
            /\ defs.pulled = k
            /\ defs.consumed \in {k - 1, k}
    ELSE /\ AllValidUpTo(defs.pulled)
         /\ (/\ res.st = "Err"
             /\ res.e \in {ExpectedBoolean, ExpectedChar, ExpectedInteger})
            => defs.pulled = defs.consumed

\* C16: every error is terminal for from_str: the first cursor operation or
\* conversion that fails gives from_str its result (with the line number
\* for a malformed line), no value is returned and no visitor is left
\* waiting, no step follows, and a malformed Definition is never passed
\* over by a decode that goes on.
C16_FirstErrorIsTerminal ==
    [][/\ ~Failed
       /\ Failed' => (stack' = <<>> /\ ErrorIsFirst')
       /\ ~Failed' => AllValidUpTo(defs.pulled)']_vars

\* from_str has failed on the malformed second line of three, after it
\* decoded the first; the third line is a valid Definition
C16_Witness ==
    /\ Done
    /\ Len(AllDefs) = 3
    /\ AllDefs[1].k = "Valid" /\ AllDefs[2].k = "Invalid" /\ AllDefs[3].k = "Valid"
    /\ defs.consumed >= 1
    /\ defs.pulled = 2
    /\ res = Err(FailedParse(Format("MissingSeparator", 2)))

-----------------------------------------------------------------------------
(* The cursor after a conversion error *)

\* what peek_key returns when n Definitions have been consumed
KeyAfter(n) ==
    IF n >= Len(AllDefs) THEN Err(Eof)
    ELSE IF AllDefs[n + 1].k = "Valid" THEN Ok(AllDefs[n + 1].key)
    ELSE Err(FailedParse(Format(AllDefs[n + 1].e, AllDefs[n + 1].ln)))

\* C17: when a scalar decode fails in the conversion (ExpectedBoolean,
\* ExpectedChar, ExpectedInteger) the Definition whose value text was
\* refused is consumed: the cursor has advanced by exactly that one
\* Definition, and a peek_key that follows refers to the next one.
C17_ConversionErrorConsumes ==
    [][(/\ op' \in {"bool", "char"} \cup IntRequests
        /\ res'.st = "Err"
        /\ res'.e \in {ExpectedBoolean, ExpectedChar, ExpectedInteger})
       => (/\ CurrentValid
           /\ defs'.consumed = defs.consumed + 1
           /\ defs'.peeked = <<>>
           /\ defs'.pulled = defs'.consumed
           /\ peek_key(defs').r = KeyAfter(defs.consumed + 1))]_vars

\* a boolean decode has refused the value of the first of two valid
\* Definitions, and the cursor is at the second
C17_Witness ==
    /\ op = "bool"
    /\ res = Err(ExpectedBoolean)
    /\ Len(AllDefs) >= 2
    /\ AllDefs[1].k = "Valid" /\ AllDefs[2].k = "Valid"
    /\ defs.consumed = 1
    /\ peek_key(defs).r = Ok(AllDefs[2].key)

-----------------------------------------------------------------------------
(* Input left over *)

\* the value text v is one the scalar request q converts: valid text for
\* its type and, for a character, one byte long (another one is refused,
\* see C5)
Converts(q, v) == ValidText(q, v) /\ (q = "char" => ByteLen(v) = 1)

\* the target is one scalar and the input starts with a Definition whose
\* value text the scalar request converts
ScalarOverFirst ==
    /\ target.k = "scalar"
    /\ target.q \in ScalarRequests
    /\ Len(AllDefs) > 1
    /\ AllDefs[1].k = "Valid"
    /\ Converts(target.q, AllDefs[1].value)

\* from_str returned the value of the first Definition and read no other
FirstOnly ==
    /\ res = Ok(Conversion(target.q, AllDefs[1].value))
    /\ defs.consumed = 1
    /\ defs.pulled = 1
    /\ defs.peeked = <<>>

\* C18: from_str does not require the input to be exhausted: for a target
\* that is a single scalar and an input of more than one valid Definition
\* it returns the value decoded from the first Definition and leaves the
\* others unconsumed and unreported.
C18_RestIsLeft ==
    (Done /\ ScalarOverFirst /\ AllValidUpTo(Len(AllDefs))) => FirstOnly

\* C18, further: the Definitions left over are not even read, and a
\* malformed one among them goes unreported
C18_MalformedRestIsLeft == (Done /\ ScalarOverFirst) => FirstOnly

\* a boolean has been decoded from the first of two valid Definitions
C18_Witness ==
    /\ Done
    /\ target = Scalar("bool")
    /\ Len(AllDefs) = 2
    /\ AllDefs[1].k = "Valid" /\ AllDefs[2].k = "Valid"
    /\ res = Ok(Visit("bool", AllDefs[1].value = TextTrue))
    /\ defs.consumed = 1

====
